---- MODULE Spec2Model ----
(***************************************************************************)
(* Model of the Safe-Code-Executor core (executor.py): run_code,           *)
(* run_code_from_dir and run_multiple, with the docker client process and  *)
(* the container it starts as the environment.                             *)
(*                                                                         *)
(* Text (stdout, stderr, messages) is a sequence of words; "w in text" of  *)
(* the source is the occurrence of the word w in the sequence.             *)
(***************************************************************************)
EXTENDS Integers, Sequences, FiniteSets, TLC

(* ------------------------------ bounds --------------------------------- *)
MaxOutLen == 1
MaxErrLen == 1
MaxTasks == 2
MaxWorkers == 2
MaxOthers == 1

(* --------------------------- program constants ------------------------- *)
PYTHON_IMAGE == "python:3.11-slim"
NODE_IMAGE == "node:20-slim"
TIMEOUT_SECONDS == 10
MEMORY_LIMIT == "128m"

DOCKER_BASE_FLAGS ==
    <<"docker", "run", "--rm", "--memory", MEMORY_LIMIT,
      "--network", "none", "--read-only">>

(* "no value": Python's None for a language, an absent directory           *)
None == "<None>"
NoDir == 0
HostDir == -1

(* ------------------------------ inputs --------------------------------- *)
LangInputs == {"python", "node", "ruby", "PYTHON", "Node", "RUBY", "", None}
Codes == <<"c1", "c2", "c3", "c4">>
EntryNames == {"main.py", "../other.py"}
OutWords == {"S", "x"}
ErrWords == {"Killed", "OOM", "MemoryError", "killed", "Traceback"}
ExitStatuses == {0, 1, 137}
(* a batch is fed programs that print their own tag and nothing else       *)
BatchLangs == {"python", "ruby"}
BatchStatuses == {0, 137}

(* ------------------------------ text ----------------------------------- *)
(* a text is the sequence of the pieces written; the string it stands for  *)
(* is their concatenation                                                  *)
RECURSIVE Join(_)
Join(text) == IF text = <<>> THEN "" ELSE Head(text) \o Join(Tail(text))

(* w in s, for strings: some slice of s equals w                           *)
IsSubstring(w, s) == \E k \in 1..(Len(s) - Len(w) + 1) : SubSeq(s, k, k + Len(w) - 1) = w

(* w in text: the substring test of Python's in, case-sensitive            *)
Contains(text, w) == IsSubstring(w, Join(text))

(* str.lower() on the language strings the model feeds in                  *)
Lower(s) ==
    CASE s = "PYTHON" -> "python"
      [] s = "Node" -> "node"
      [] s = "RUBY" -> "ruby"
      [] OTHER -> s

(* (lang or "python").lower()                                              *)
NormalizeLang(l) == Lower(IF l = None \/ l = "" THEN "python" ELSE l)

IsSupported_all(l) == TRUE

(* lang not in ("python", "node")  (negated)                               *)
IsSupported(l) == l \in {"python", "node"}

(* ----------------------------- outcomes -------------------------------- *)
Outcome(o, e, c) == [stdout |-> o, stderr |-> e, exit_code |-> c]

UnsupportedMsg(l) == <<"Unsupported language: ", l>>
EntryNotFoundMsg(entry) == <<"Entry file not found: ", entry>>
KilledMsg == <<"Process killed (likely out of memory > ", MEMORY_LIMIT, ").">>
TimeoutMsg == <<"Execution timed out after ", ToString(TIMEOUT_SECONDS), " seconds.">>
ExecutorErrorMsg(e) == <<"Executor error: ", e>>

(* value of a call: nothing yet, a returned triple, or a raised exception  *)
NoValue == [kind |-> "none", stdout |-> <<>>, stderr |-> <<>>, exit_code |-> 0, exc |-> ""]
Returned(o) == [kind |-> "return", stdout |-> o.stdout, stderr |-> o.stderr,
                exit_code |-> o.exit_code, exc |-> ""]
Raised(e) == [kind |-> "raise", stdout |-> <<>>, stderr |-> <<>>, exit_code |-> 0, exc |-> e]

(* os.path.join(host_dir, entry_filename): whether the joined path lies    *)
(* inside host_dir; a name with a leading ".." component leaves it         *)
JoinStaysUnderRoot(entry) == entry \notin {"../other.py"}

(* ------------------------- launch spec builder ------------------------- *)
NoCmd == [flags |-> <<>>, src |-> NoDir, dst |-> "", mode |-> "", workdir |-> "",
          image |-> "", run_cmd |-> <<>>]

Filename(l) == IF l = "python" THEN "user_code.py" ELSE "user_code.js"

BuildRaises(l) == ~ (l = "python" \/ l = "node")

_build_cmd_for_file_rw(container_filename, l, dir) ==
    [flags |-> DOCKER_BASE_FLAGS, src |-> dir, dst |-> "/app",
     mode |-> IF l = "node" THEN "rw" ELSE "ro",
     workdir |-> "/app",
     image |-> IF l = "python" THEN PYTHON_IMAGE ELSE NODE_IMAGE,
     run_cmd |-> <<(IF l = "python" THEN "python" ELSE "node"), container_filename>>]

(* the docker run command: base flags, -v dir:/app:ro, -w /app, image,     *)
(* interpreter and file                                                    *)
_build_cmd_for_file(container_filename, l, dir) ==
    [flags |-> DOCKER_BASE_FLAGS, src |-> dir, dst |-> "/app", mode |-> "ro",
     workdir |-> "/app",
     image |-> IF l = "python" THEN PYTHON_IMAGE ELSE NODE_IMAGE,
     run_cmd |-> <<(IF l = "python" THEN "python" ELSE "node"), container_filename>>]

(* --------------------------- classification ---------------------------- *)
IsContainerKill_dirrule(exit_code, stderr) == exit_code # 0 /\ Contains(stderr, "Killed")

(* exit_code == 137 or "Killed" in stderr or "OOM" in stderr               *)
IsContainerKill(exit_code, stderr) ==
    exit_code = 137 \/ Contains(stderr, "Killed") \/ Contains(stderr, "OOM")

ClassifyRunCode_dropout(stdout, stderr, exit_code) ==
    IF IsContainerKill(exit_code, stderr) THEN Outcome(<<>>, KilledMsg, 137)
    ELSE IF Contains(stderr, "MemoryError") THEN Outcome(<<>>, stderr, exit_code)
    ELSE Outcome((IF stderr = <<>> THEN stdout ELSE <<>>), stderr, exit_code)

(* run_code, after subprocess.run has returned                             *)
ClassifyRunCode(stdout, stderr, exit_code) ==
    IF IsContainerKill(exit_code, stderr) THEN Outcome(<<>>, KilledMsg, 137)
    ELSE IF Contains(stderr, "MemoryError") THEN Outcome(<<>>, stderr, exit_code)
    ELSE Outcome(stdout, stderr, exit_code)

(* run_code_from_dir, after subprocess.run has returned                    *)
ClassifyRunDir(stdout, stderr, exit_code) ==
    IF exit_code # 0 /\ Contains(stderr, "Killed")
    THEN Outcome(stdout, KilledMsg, exit_code)
    ELSE Outcome(stdout, stderr, exit_code)

TimeoutOutcome_keep(stdout, stderr) == Outcome(stdout, stderr, -1)

(* except subprocess.TimeoutExpired: the captured streams are dropped      *)
TimeoutOutcome(stdout, stderr) == Outcome(<<>>, TimeoutMsg, -1)

(* ------------------------------- state --------------------------------- *)
VARIABLES
    op,          \* the public operation called
    tasks,       \* its arguments, one record per run
    max_workers, \* run_multiple's max_workers
    pc,          \* position of each run_code / run_code_from_dir call
    tmpdir,      \* the staging directory each call created (NoDir: none)
    fs,          \* host filesystem: staging directory -> files in it
    cmd,         \* launch command each call built
    invocations, \* subprocess.run calls each call made
    deadline,    \* timeout each subprocess.run call was given (0: none)
    client,      \* the docker client process of each call
    container,   \* the container that client started
    cap_out,     \* stdout the process has written so far
    cap_err,     \* stderr the process has written so far
    status,      \* exit status of the client process
    ret,         \* value of each call: returned triple or raised exception
    mainpc,      \* position of the calling thread
    next_i,      \* run_multiple: next task to submit
    queue,       \* run_multiple: the pool's work queue
    results,     \* run_multiple: the results list
    collected,   \* run_multiple: the futures as_completed has yielded
    first_done,  \* run_multiple: the future as_completed yielded first (0: none)
    route,       \* app.py: the route of the request ("none": no request)
    req,         \* app.py: the request, one record per snippet
    apppc,       \* app.py: position of the request handler
    save_idx,    \* app.py: next history item to save
    saved,       \* app.py: how far the save of each item has got
    HISTORY,     \* app.py: the in-memory history list
    item,        \* app.py: the history item being saved
    db,          \* app.py: rows of the runs table
    response     \* app.py: the response sent

vars == <<op, tasks, max_workers, pc, tmpdir, fs, cmd, invocations, deadline, client,
          container, cap_out, cap_err, status, ret, mainpc, next_i, queue,
          results, collected, first_done, route, req, apppc, save_idx, saved,
          item, HISTORY, db, response>>

appvars == <<route, req, apppc, save_idx, saved, item, HISTORY, db, response>>

runvars == <<tmpdir, fs, cmd, invocations, deadline, client, container, cap_out, cap_err, status>>
batchvars == <<mainpc, next_i, queue, results, collected, first_done>>

N == Len(tasks)
Calls == 1..N

(* entry_exists: a file exists on the host at the joined entry path        *)
Task(code, l, entry, present) ==
    [code |-> code, lang |-> l, entry |-> entry, entry_exists |-> present]

(* line 101: os.path.exists(entry_path)                                    *)
EntryPathExists(t) == t.entry_exists

(* results = [None] * len(tasks)                                           *)
NoResult == [set |-> FALSE, output |-> <<>>, error |-> <<>>, exit_code |-> 0]
ResultDict(out, err, code) == [set |-> TRUE, output |-> out, error |-> err, exit_code |-> code]

(* calls that hold a worker thread of the pool                             *)
ActivePcs == {"start", "stage", "check_entry", "launch", "running"}
InFlight == {i \in Calls : pc[i] \in ActivePcs}
Ended(i) == pc[i] \in {"returned", "raised"}

IsDirRun == op = "run_code_from_dir"

InitCalls ==
    /\ tmpdir = [i \in Calls |-> NoDir]
    /\ fs = << >>
    /\ cmd = [i \in Calls |-> NoCmd]
    /\ invocations = [i \in Calls |-> 0]
    /\ deadline = [i \in Calls |-> 0]
    /\ client = [i \in Calls |-> "none"]
    /\ container = [i \in Calls |-> "none"]
    /\ cap_out = [i \in Calls |-> <<>>]
    /\ cap_err = [i \in Calls |-> <<>>]
    /\ status = [i \in Calls |-> 0]
    /\ ret = [i \in Calls |-> NoValue]

NoResponse == [code |-> 0, outcomes |-> <<>>]

NoItem == [timestamp |-> "", language |-> "", code |-> <<>>, code_len |-> 0,
           output |-> <<>>, error |-> <<>>, exit_code |-> 0]

(* no request: the executor is called directly                             *)
NoRequest ==
    /\ route = "none"
    /\ req = <<>>
    /\ apppc = "none"
    /\ save_idx = 0
    /\ saved = <<>>
    /\ item = NoItem
    /\ HISTORY = <<>>
    /\ db = <<>>
    /\ response = NoResponse

(* one direct call of run_code or run_code_from_dir                        *)
Init ==
    /\ NoRequest
    /\ op \in {"run_code", "run_code_from_dir"}
    /\ \E l \in LangInputs, e \in EntryNames, present \in BOOLEAN :
         tasks = << Task(Codes[1], l, IF op = "run_code" THEN "" ELSE e,
                         IF op = "run_code" THEN TRUE ELSE present) >>
    /\ max_workers = 1
    /\ pc = [i \in Calls |-> "start"]
    /\ InitCalls
    /\ mainpc = "call"
    /\ next_i = 1
    /\ queue = <<>>
    /\ results = <<>>
    /\ collected = {}
    /\ first_done = 0

(* ---------------------- run_code / run_code_from_dir ------------------- *)
Lang(i) == NormalizeLang(tasks[i].lang)

Cleanup_leak(i) == fs

(* with tempfile.TemporaryDirectory() ... : left on return and on raise    *)
Cleanup(i) == [d \in (DOMAIN fs) \ {tmpdir[i]} |-> fs[d]]

FreshDir_shared == CHOOSE d \in 1..(MaxTasks + 2) : TRUE

(* tempfile.TemporaryDirectory(): a directory that did not exist before    *)
FreshDir == CHOOSE d \in 1..(MaxTasks + 2) : d \notin DOMAIN fs /\ \A i \in Calls : tmpdir[i] # d

(* lines 46-48 and 95-97: the language check                               *)
CheckLanguage(i) ==
    /\ pc[i] = "start"
    /\ IF ~ IsSupported(Lang(i))
       THEN /\ ret' = [ret EXCEPT ![i] = Returned(Outcome(<<>>, UnsupportedMsg(Lang(i)), -2))]
            /\ pc' = [pc EXCEPT ![i] = "returned"]
       ELSE /\ pc' = [pc EXCEPT ![i] = IF IsDirRun THEN "check_entry" ELSE "stage"]
            /\ UNCHANGED ret
    /\ UNCHANGED <<op, tasks, max_workers, runvars, batchvars, appvars>>

(* lines 51-58: stage the snippet and build the command                    *)
Stage(i) ==
    /\ pc[i] = "stage"
    /\ LET d == FreshDir
           name == Filename(Lang(i))
       IN  /\ tmpdir' = [tmpdir EXCEPT ![i] = d]
           /\ IF BuildRaises(Lang(i))
              THEN /\ fs' = fs
                   /\ ret' = [ret EXCEPT ![i] = Raised("ValueError")]
                   /\ pc' = [pc EXCEPT ![i] = "raised"]
                   /\ UNCHANGED cmd
              ELSE /\ fs' = [x \in (DOMAIN fs) \cup {d} |->
                               IF x = d
                               THEN {f \in (IF d \in DOMAIN fs THEN fs[d] ELSE {}) :
                                        f[1] # name} \cup {<<name, tasks[i].code>>}
                               ELSE fs[x]]
                   /\ cmd' = [cmd EXCEPT ![i] = _build_cmd_for_file(name, Lang(i), d)]
                   /\ pc' = [pc EXCEPT ![i] = "launch"]
                   /\ UNCHANGED ret
    /\ UNCHANGED <<op, tasks, max_workers, invocations, deadline, client, container,
                   cap_out, cap_err, status, batchvars, appvars>>

(* lines 99-106: the entry check of a directory run, then the command      *)
CheckEntry(i) ==
    /\ pc[i] = "check_entry"
    /\ IF ~ EntryPathExists(tasks[i])
       THEN /\ ret' = [ret EXCEPT ![i] =
                         Returned(Outcome(<<>>, EntryNotFoundMsg(tasks[i].entry), -3))]
            /\ pc' = [pc EXCEPT ![i] = "returned"]
            /\ UNCHANGED cmd
       ELSE IF BuildRaises(Lang(i))
       THEN /\ ret' = [ret EXCEPT ![i] = Raised("ValueError")]
            /\ pc' = [pc EXCEPT ![i] = "raised"]
            /\ UNCHANGED cmd
       ELSE /\ cmd' = [cmd EXCEPT ![i] = _build_cmd_for_file(tasks[i].entry, Lang(i), HostDir)]
            /\ pc' = [pc EXCEPT ![i] = "launch"]
            /\ UNCHANGED ret
    /\ UNCHANGED <<op, tasks, max_workers, tmpdir, fs, invocations, deadline, client, container,
                   cap_out, cap_err, status, batchvars, appvars>>

(* subprocess.run starts the docker client, which starts the container     *)
Launch(i) ==
    /\ pc[i] = "launch"
    /\ invocations' = [invocations EXCEPT ![i] = @ + 1]
    /\ deadline' = [deadline EXCEPT ![i] = TIMEOUT_SECONDS]
    /\ client' = [client EXCEPT ![i] = "running"]
    /\ container' = [container EXCEPT ![i] = "running"]
    /\ pc' = [pc EXCEPT ![i] = "running"]
    /\ UNCHANGED <<op, tasks, max_workers, tmpdir, fs, cmd, cap_out, cap_err, status,
                   ret, batchvars, appvars>>

(* subprocess.run cannot start the client (no docker on the host): the     *)
(* OSError is not caught in run_code / run_code_from_dir                   *)
LaunchFault(i) ==
    /\ pc[i] = "launch"
    /\ invocations' = [invocations EXCEPT ![i] = @ + 1]
    /\ deadline' = [deadline EXCEPT ![i] = TIMEOUT_SECONDS]
    /\ fs' = Cleanup(i)
    /\ ret' = [ret EXCEPT ![i] = Raised("FileNotFoundError")]
    /\ pc' = [pc EXCEPT ![i] = "raised"]
    /\ UNCHANGED <<op, tasks, max_workers, tmpdir, cmd, client, container,
                   cap_out, cap_err, status, batchvars, appvars>>

OutWordsFor(i) == IF op = "run_multiple" THEN {tasks[i].code} ELSE OutWords
StatusesFor(i) == IF op = "run_multiple" THEN BatchStatuses ELSE ExitStatuses

(* the sandboxed process writes to its standard output                     *)
WriteOut(i) ==
    /\ pc[i] = "running"
    /\ Len(cap_out[i]) < (IF op = "run_multiple" THEN Len(<<tasks[i].code>>) ELSE MaxOutLen)
    /\ \E w \in OutWordsFor(i) : cap_out' = [cap_out EXCEPT ![i] = Append(@, w)]
    /\ UNCHANGED <<op, tasks, max_workers, pc, tmpdir, fs, cmd, invocations, deadline, client,
                   container, cap_err, status, ret, batchvars, appvars>>

(* the sandboxed process (or the runtime about it) writes to standard error *)
WriteErr(i) ==
    /\ pc[i] = "running"
    /\ Len(cap_err[i]) < MaxErrLen
    /\ \E w \in ErrWords : cap_err' = [cap_err EXCEPT ![i] = Append(@, w)]
    /\ UNCHANGED <<op, tasks, max_workers, pc, tmpdir, fs, cmd, invocations, deadline, client,
                   container, cap_out, status, ret, batchvars, appvars>>

Classify(stdout, stderr, exit_code) ==
    IF IsDirRun THEN ClassifyRunDir(stdout, stderr, exit_code)
    ELSE ClassifyRunCode(stdout, stderr, exit_code)

(* lines 71-83 and 110-115: the container ends, the client exits with its  *)
(* status, subprocess.run returns and the result is classified             *)
ProcessExit(i) ==
    /\ pc[i] = "running"
    /\ \E s \in StatusesFor(i) :
         /\ status' = [status EXCEPT ![i] = s]
         /\ ret' = [ret EXCEPT ![i] = Returned(Classify(cap_out[i], cap_err[i], s))]
    /\ client' = [client EXCEPT ![i] = "exited"]
    /\ container' = [container EXCEPT ![i] = "exited"]
    /\ fs' = Cleanup(i)
    /\ pc' = [pc EXCEPT ![i] = "returned"]
    /\ UNCHANGED <<op, tasks, max_workers, tmpdir, cmd, invocations, deadline, cap_out, cap_err,
                   batchvars, appvars>>

(* lines 85-86 and 116-117: the deadline elapses; subprocess.run kills the *)
(* client process it started and raises TimeoutExpired; nothing stops the  *)
(* container                                                               *)
Timeout(i) ==
    /\ pc[i] = "running"
    /\ client' = [client EXCEPT ![i] = "killed"]
    /\ ret' = [ret EXCEPT ![i] = Returned(TimeoutOutcome(cap_out[i], cap_err[i]))]
    /\ fs' = Cleanup(i)
    /\ pc' = [pc EXCEPT ![i] = "returned"]
    /\ UNCHANGED <<op, tasks, max_workers, tmpdir, cmd, invocations, deadline, container,
                   cap_out, cap_err, status, batchvars, appvars>>

(* a container left behind by a timeout ends when its program does         *)
ContainerEnds(i) ==
    /\ client[i] = "killed"
    /\ container[i] = "running"
    /\ container' = [container EXCEPT ![i] = "exited"]
    /\ UNCHANGED <<op, tasks, max_workers, pc, tmpdir, fs, cmd, invocations, deadline, client,
                   cap_out, cap_err, status, ret, batchvars, appvars>>

RunStep(i) ==
    \/ CheckLanguage(i)
    \/ Stage(i)
    \/ CheckEntry(i)
    \/ Launch(i)
    \/ LaunchFault(i)
    \/ WriteOut(i)
    \/ WriteErr(i)
    \/ ProcessExit(i)
    \/ Timeout(i)
    \/ ContainerEnds(i)

Next == \E i \in Calls : RunStep(i)

Spec == Init /\ [][Next]_vars

(* ----------------------------- run_multiple ---------------------------- *)
(* one call of run_multiple(tasks, max_workers): results = [None] * N and  *)
(* an empty pool                                                           *)
InitBatch ==
    /\ NoRequest
    /\ op = "run_multiple"
    /\ \E n \in 1..MaxTasks : \E ls \in [1..n -> BatchLangs] :
         tasks = [i \in 1..n |-> Task(Codes[i], ls[i], "", TRUE)]
    /\ max_workers \in 1..MaxWorkers
    /\ pc = [i \in Calls |-> "unsubmitted"]
    /\ InitCalls
    /\ mainpc = "submit"
    /\ next_i = 1
    /\ queue = <<>>
    /\ results = [i \in Calls |-> NoResult]
    /\ collected = {}
    /\ first_done = 0

(* line 130: ex.submit(run_code, code, lang) puts the work item in the     *)
(* pool's queue; after the last one the caller enters as_completed         *)
Submit ==
    /\ mainpc = "submit"
    /\ next_i <= N
    /\ queue' = Append(queue, next_i)
    /\ pc' = [pc EXCEPT ![next_i] = "queued"]
    /\ next_i' = next_i + 1
    /\ mainpc' = IF next_i = N THEN "collect" ELSE "submit"
    /\ UNCHANGED <<op, tasks, max_workers, runvars, ret, results, collected, first_done, appvars>>

WorkerFree_extra(busy, limit) == busy <= limit

WorkerFree_strict(busy, limit) == busy + 1 < limit

(* ThreadPoolExecutor(max_workers): at most max_workers worker threads     *)
WorkerFree(busy, limit) == busy < limit

(* a free worker takes the oldest work item and calls run_code             *)
Admit(i) ==
    /\ queue # <<>>
    /\ i = Head(queue)
    /\ WorkerFree(Cardinality(InFlight), max_workers)
    /\ queue' = Tail(queue)
    /\ pc' = [pc EXCEPT ![i] = "start"]
    /\ UNCHANGED <<op, tasks, max_workers, runvars, ret, mainpc, next_i, results,
                   collected, first_done, appvars>>

Caught_none(exc) == FALSE

(* line 136: except Exception; every fault a run raises is an Exception    *)
Caught(exc) == exc \in {"FileNotFoundError", "ValueError"}

ResultSlot_arrival(i, k) == k

(* line 133: i = futures_map[fut]; k is the rank of fut among the yielded  *)
ResultSlot(i, k) == i

(* lines 132-138: as_completed yields a finished future; its value, or the *)
(* executor-error triple when it raised, is stored in the results list     *)
Collect(i) ==
    /\ mainpc = "collect"
    /\ Ended(i)
    /\ i \notin collected
    /\ LET r == ret[i]
           slot == ResultSlot(i, Cardinality(collected) + 1)
       IN  IF r.kind = "raise" /\ ~ Caught(r.exc)
           THEN /\ mainpc' = "raised"
                /\ UNCHANGED <<results, collected, first_done>>
           ELSE /\ results' = [results EXCEPT ![slot] =
                                 IF r.kind = "raise"
                                 THEN ResultDict(<<>>, ExecutorErrorMsg(r.exc), -3)
                                 ELSE ResultDict(r.stdout, r.stderr, r.exit_code)]
                /\ collected' = collected \cup {i}
                /\ first_done' = IF collected = {} THEN i ELSE first_done
                /\ UNCHANGED mainpc
    /\ UNCHANGED <<op, tasks, max_workers, pc, runvars, ret, next_i, queue, appvars>>

(* line 140: every future was yielded, the pool is shut down, return       *)
ReturnResults ==
    /\ mainpc = "collect"
    /\ collected = Calls
    /\ mainpc' = "done"
    /\ UNCHANGED <<op, tasks, max_workers, pc, runvars, ret, next_i, queue, results,
                   collected, first_done, appvars>>

BatchRunStep(i) ==
    \/ CheckLanguage(i)
    \/ Stage(i)
    \/ Launch(i)
    \/ LaunchFault(i)
    \/ WriteOut(i)
    \/ ProcessExit(i)
    \/ Timeout(i)
    \/ ContainerEnds(i)

NextBatch ==
    \/ Submit
    \/ \E i \in Calls : Admit(i)
    \/ \E i \in Calls : BatchRunStep(i)
    \/ \E i \in Calls : Collect(i)
    \/ ReturnResults

SpecBatch == InitBatch /\ [][NextBatch]_vars

(* the main thread and the pool: submitting, handing a queued item to a    *)
(* free worker, taking a finished future, returning                        *)
PoolStep ==
    \/ Submit
    \/ \E i \in Calls : Admit(i)
    \/ \E i \in Calls : Collect(i)
    \/ ReturnResults

(* worker i runs run_code to its end; once launched, subprocess.run        *)
(* returns at process exit or raises at the deadline                       *)
WorkerStep(i) ==
    /\ i \in Calls
    /\ \/ CheckLanguage(i)
       \/ Stage(i)
       \/ Launch(i)
       \/ LaunchFault(i)
       \/ ProcessExit(i)
       \/ Timeout(i)

(* threads that can run do run, and every provider invocation resolves by  *)
(* process exit or by its deadline                                         *)
FairBatch ==
    /\ WF_vars(PoolStep)
    /\ \A i \in 1..MaxTasks : WF_vars(WorkerStep(i))

SpecBatchFair == SpecBatch /\ FairBatch

(* any one call of a public operation of executor.py                       *)
InitAll == Init \/ InitBatch

NextAll ==
    \/ op # "run_multiple" /\ Next
    \/ op = "run_multiple" /\ NextBatch

SpecAll == InitAll /\ [][NextAll]_vars

(* -------------------------------- app.py ------------------------------- *)
MAX_CODE_CHARS == 5000
MAX_HISTORY == 100
APP_MAX_WORKERS == 5

(* a key the request does not carry                                        *)
Absent == "<absent>"

(* the value of "code": is_str is isinstance(code, str), blank is          *)
(* not code.strip(), len is len(code)                                      *)
CodeValue(is_str, blank, len) == [is_str |-> is_str, blank |-> blank, len |-> len]

NotAString == CodeValue(FALSE, FALSE, 0)
EmptyCode == CodeValue(TRUE, TRUE, 0)

RunLanguages == {Absent, "node", "ruby", "PYTHON"}
RunCodes ==
    {NotAString, EmptyCode, CodeValue(TRUE, TRUE, MAX_CODE_CHARS),
     CodeValue(TRUE, FALSE, MAX_CODE_CHARS), CodeValue(TRUE, FALSE, MAX_CODE_CHARS + 1)}

(* the "language" a /run-batch task declares, as in the documented body    *)
BatchLanguages == {"node", "ruby"}
(* len(tasks) of a /run-batch request; with max_workers=5 none of these    *)
(* batches queues                                                          *)
BatchSizes == {0, 1, 2}
BatchCodes ==
    {NotAString, CodeValue(TRUE, FALSE, MAX_CODE_CHARS),
     CodeValue(TRUE, FALSE, MAX_CODE_CHARS + 1)}

(* /run-zip: the uploaded file, its name, and the entry names of the form  *)
LongEntry == "<entry name of 2017 characters>"
ZipFiles == {"zip", "bad zip", Absent}
ZipFilename == "proj.zip"
ZipEntries == EntryNames \cup {LongEntry, Absent}
(* what time.strftime("%Y-%m-%d %H:%M:%S") returns: the local wall clock,  *)
(* which may be set back between two items                                 *)
Timestamps == {"11:51:55", "12:51:55"}

(* len() of the names above                                                *)
NameLen(name) ==
    CASE name = "main.py" -> 7
      [] name = "../other.py" -> 11
      [] name = LongEntry -> 2017
      [] name = ZipFilename -> 8
      [] name = "[zip run] " -> 10
      [] name = " (from " -> 7
      [] name = ")" -> 1

RECURSIVE TextLen(_)
TextLen(text) == IF text = <<>> THEN 0 ELSE NameLen(Head(text)) + TextLen(Tail(text))

Request(code, language, file, entry, present) ==
    [code |-> code, len |-> code.len, language |-> language, lang |-> Absent,
     file |-> file, entry |-> entry, entry_exists |-> present]

(* data.get("language", "python"), t.get("language", "python")             *)
GetLanguage(r) == IF r.language = Absent THEN "python" ELSE r.language

(* executor.py line 129: t.get("lang", "python")                           *)
TaskGetLang(r) == IF r.lang = Absent THEN "python" ELSE r.lang

(* app.py lines 78 and 155: (... or "python").lower()                      *)
AppLanguage(r) == NormalizeLang(GetLanguage(r))

TooLong_offbyone(len) == len > MAX_CODE_CHARS + 1

(* len(code) > MAX_CODE_CHARS                                              *)
TooLong(len) == len > MAX_CODE_CHARS

(* the request a handler rejects with status 400 before any run            *)
Rejected ==
    CASE route = "/run" ->
            \/ ~ req[1].code.is_str
            \/ req[1].code.blank
            \/ TooLong(req[1].len)
      [] route = "/run-batch" ->
            \/ req = <<>>
            \/ \E k \in DOMAIN req : ~ req[k].code.is_str \/ TooLong(req[k].len)
      [] route = "/run-zip" ->
            \/ req[1].file = Absent
            \/ req[1].entry = Absent
            \/ req[1].file = "bad zip"
            \/ ~ req[1].entry_exists
      [] OTHER -> FALSE

(* the call of the executor the handler is about to make                   *)
InitApp ==
    /\ route \in {"/run", "/run-batch", "/run-zip"}
    /\ CASE route = "/run" ->
              /\ \E c \in RunCodes, l \in RunLanguages :
                   req = << Request(c, l, Absent, "", TRUE) >>
              /\ op = "run_code"
              /\ tasks = << Task(Codes[1], AppLanguage(req[1]), "", TRUE) >>
              /\ max_workers = 1
         [] route = "/run-zip" ->
              /\ \E l \in RunLanguages, f \in ZipFiles, e \in ZipEntries, present \in BOOLEAN :
                   req = << Request(EmptyCode, l, f, e, present /\ f = "zip" /\ e # Absent) >>
              /\ op = "run_code_from_dir"
              /\ tasks = << Task(Codes[1], AppLanguage(req[1]), req[1].entry,
                                 req[1].entry_exists) >>
              /\ max_workers = 1
         [] route = "/run-batch" ->
              /\ \E n \in BatchSizes :
                   req \in [1..n -> {Request(c, l, Absent, "", TRUE) :
                                       c \in BatchCodes, l \in BatchLanguages}]
              /\ op = "run_multiple"
              /\ tasks = [i \in DOMAIN req |-> Task(Codes[i], TaskGetLang(req[i]), "", TRUE)]
              /\ max_workers = APP_MAX_WORKERS
    /\ pc = [i \in Calls |-> IF op = "run_multiple" THEN "unsubmitted" ELSE "start"]
    /\ InitCalls
    /\ mainpc = IF op = "run_multiple" THEN "submit" ELSE "call"
    /\ next_i = 1
    /\ queue = <<>>
    /\ results = IF op = "run_multiple" THEN [i \in Calls |-> NoResult] ELSE <<>>
    /\ collected = {}
    /\ first_done = 0
    /\ apppc = "validate"
    /\ save_idx = 0
    /\ saved = [i \in Calls |-> "none"]
    /\ item = NoItem
    /\ HISTORY = <<>>
    /\ db = <<>>
    /\ response = NoResponse

execvars == <<op, tasks, max_workers, pc, runvars, ret, batchvars>>

(* app.py lines 80-84, 114-122, 157-173: the checks before the run         *)
Validate ==
    /\ apppc = "validate"
    /\ IF Rejected
       THEN /\ response' = [code |-> 400, outcomes |-> <<>>]
            /\ apppc' = "responded"
       ELSE /\ apppc' = "executing"
            /\ UNCHANGED response
    /\ UNCHANGED <<execvars, route, req, save_idx, saved, item, HISTORY, db>>

(* app.py lines 86, 124, 177: the handler is inside the executor           *)
Execute ==
    /\ apppc = "executing"
    /\ NextAll

ExecDone == IF op = "run_multiple" THEN mainpc \in {"done", "raised"} ELSE Ended(1)
ExecRaised == IF op = "run_multiple" THEN mainpc = "raised" ELSE pc[1] = "raised"

(* what the executor handed back, one triple per snippet                   *)
ExecOutcomes ==
    IF op = "run_multiple"
    THEN [i \in Calls |-> Outcome(results[i].output, results[i].error, results[i].exit_code)]
    ELSE << Outcome(ret[1].stdout, ret[1].stderr, ret[1].exit_code) >>

(* the executor call is over: a fault it raised becomes a 500 response,    *)
(* otherwise the handler goes on to the history. The frames of the call    *)
(* are gone: of the executor's locals (staging path, command, captured     *)
(* streams, futures) only the returned value is left; processes and        *)
(* containers are not locals and stay as they are                          *)
Finish ==
    /\ apppc = "executing"
    /\ ExecDone
    /\ IF ExecRaised
       THEN /\ response' = [code |-> 500, outcomes |-> <<>>]
            /\ apppc' = "responded"
            /\ UNCHANGED save_idx
       ELSE /\ apppc' = "saving"
            /\ save_idx' = 1
            /\ UNCHANGED response
    /\ tmpdir' = [i \in Calls |-> NoDir]
    /\ cmd' = [i \in Calls |-> NoCmd]
    /\ deadline' = [i \in Calls |-> 0]
    /\ cap_out' = [i \in Calls |-> <<>>]
    /\ cap_err' = [i \in Calls |-> <<>>]
    /\ status' = [i \in Calls |-> 0]
    /\ collected' = {}
    /\ first_done' = 0
    /\ UNCHANGED <<op, tasks, max_workers, pc, fs, invocations, client, container, ret,
                   mainpc, next_i, queue, results, route, req, saved, item, HISTORY, db>>

(* line 182: f"[zip run] {entry} (from {filename})"                        *)
ZipLabel(entry, filename) == <<"[zip run] ", entry, " (from ", filename, ")">>

(* app.py lines 88-95, 128-135, 179-186: the history item; /run and        *)
(* /run-batch keep code[:2000], /run-zip stores its label uncut            *)
HistoryItem(k, now) ==
    [timestamp |-> now,
     language |-> IF route = "/run-batch" THEN GetLanguage(req[k]) ELSE AppLanguage(req[k]),
     code |-> IF route = "/run-zip" THEN ZipLabel(req[k].entry, ZipFilename)
              ELSE <<tasks[k].code>>,
     code_len |-> IF route = "/run-zip" THEN TextLen(ZipLabel(req[k].entry, ZipFilename))
                  ELSE IF req[k].len > 2000 THEN 2000 ELSE req[k].len,
     output |-> ExecOutcomes[k].stdout,
     error |-> ExecOutcomes[k].stderr,
     exit_code |-> ExecOutcomes[k].exit_code]

(* the handler builds the item of snippet save_idx, stamped with the time  *)
BuildItem ==
    /\ apppc = "saving"
    /\ save_idx <= N
    /\ saved[save_idx] = "none"
    /\ \E now \in Timestamps : item' = HistoryItem(save_idx, now)
    /\ saved' = [saved EXCEPT ![save_idx] = "built"]
    /\ UNCHANGED <<execvars, route, req, apppc, save_idx, HISTORY, db, response>>

(* save_history_item lines 55-58: insert at the front, drop the oldest     *)
Remember(it) ==
    LET h == <<it>> \o HISTORY
    IN  IF Len(h) > MAX_HISTORY THEN SubSeq(h, 1, Len(h) - 1) ELSE h

(* save_history_item lines 55-58: under HISTORY_LOCK the item goes into    *)
(* HISTORY; the lock is released before sqlite is touched                  *)
SaveInsert ==
    /\ apppc = "saving"
    /\ save_idx <= N
    /\ saved[save_idx] = "built"
    /\ HISTORY' = Remember(item)
    /\ saved' = [saved EXCEPT ![save_idx] = "inserted"]
    /\ UNCHANGED <<execvars, route, req, apppc, save_idx, item, db, response>>

(* save_history_item lines 60-67: the row is inserted and committed        *)
SaveCommit ==
    /\ apppc = "saving"
    /\ save_idx <= N
    /\ saved[save_idx] = "inserted"
    /\ db' = Append(db, item)
    /\ saved' = [saved EXCEPT ![save_idx] = "ok"]
    /\ save_idx' = save_idx + 1
    /\ UNCHANGED <<execvars, route, req, apppc, item, HISTORY, response>>

(* save_history_item lines 60-67: sqlite raises before the row is in       *)
SaveRaise ==
    /\ apppc = "saving"
    /\ save_idx <= N
    /\ saved[save_idx] = "inserted"
    /\ saved' = [saved EXCEPT ![save_idx] = "raised"]
    /\ UNCHANGED <<execvars, route, req, apppc, save_idx, item, HISTORY, db, response>>

SaveFaultCaught_not(k) == FALSE

(* app.py lines 96-100, 136-139, 187-190: try ... except Exception: pass   *)
SaveFaultCaught(k) == TRUE

(* the handler's except clause takes the fault of the save                 *)
CatchSaveFault ==
    /\ apppc = "saving"
    /\ save_idx <= N
    /\ saved[save_idx] = "raised"
    /\ saved' = [saved EXCEPT ![save_idx] = "failed"]
    /\ IF SaveFaultCaught(save_idx)
       THEN /\ save_idx' = save_idx + 1
            /\ UNCHANGED <<apppc, response>>
       ELSE /\ response' = [code |-> 500, outcomes |-> <<>>]
            /\ apppc' = "responded"
            /\ UNCHANGED save_idx
    /\ UNCHANGED <<execvars, route, req, item, HISTORY, db>>

(* the item of a request another thread of the server is handling          *)
OtherItem == [timestamp |-> "12:51:55", language |-> "python", code |-> <<"other-request">>,
              code_len |-> 1, output |-> <<>>, error |-> <<>>, exit_code |-> 0]

Count(seq, x) == Cardinality({k \in DOMAIN seq : seq[k] = x})

(* save_history_item lines 55-58 in the thread of another request: it can  *)
(* run whenever HISTORY_LOCK is free, which is in every state of this      *)
(* handler                                                                 *)
OtherInsert ==
    /\ route # "none"
    /\ Count(HISTORY, OtherItem) < MaxOthers
    /\ HISTORY' = Remember(OtherItem)
    /\ UNCHANGED <<execvars, route, req, apppc, save_idx, saved, item, db, response>>

(* save_history_item lines 60-67 in the other thread                       *)
OtherCommit ==
    /\ route # "none"
    /\ Count(HISTORY, OtherItem) > Count(db, OtherItem)
    /\ db' = Append(db, OtherItem)
    /\ UNCHANGED <<execvars, route, req, apppc, save_idx, saved, item, HISTORY, response>>

(* app.py lines 102, 141, 192: return jsonify(...)                         *)
Respond ==
    /\ apppc = "saving"
    /\ save_idx > N
    /\ response' = [code |-> 200, outcomes |-> ExecOutcomes]
    /\ apppc' = "responded"
    /\ UNCHANGED <<execvars, route, req, save_idx, saved, item, HISTORY, db>>

NextApp ==
    \/ Validate
    \/ Execute
    \/ Finish
    \/ BuildItem
    \/ SaveInsert
    \/ SaveCommit
    \/ SaveRaise
    \/ CatchSaveFault
    \/ OtherInsert
    \/ OtherCommit
    \/ Respond

SpecApp == InitApp /\ [][NextApp]_vars

(* ------------------------------ properties ----------------------------- *)
TimedOut(i) == client[i] = "killed"
Exited(i) == client[i] = "exited"
Triple(r) == Outcome(r.stdout, r.stderr, r.exit_code)

(* what run_multiple owes slot i once call i has ended: the triple the     *)
(* call returned, or the executor-error triple when it raised              *)
ResultOf(i) ==
    IF ret[i].kind = "raise"
    THEN ResultDict(<<>>, ExecutorErrorMsg(ret[i].exc), -3)
    ELSE ResultDict(ret[i].stdout, ret[i].stderr, ret[i].exit_code)

(* C1: run_multiple returns a list of exactly N entries and entry i is the *)
(* outcome of the run launched for task i, whatever the completion order:  *)
(* a slot is empty until its own run is collected, then holds that run's   *)
(* outcome (its output carries only task i's tag), and none is empty at    *)
(* return.                                                                 *)
C1_ResultsInRequestOrder ==
    /\ Len(results) = N
    /\ \A i \in Calls :
         /\ results[i].set <=> i \in collected
         /\ results[i].set => /\ results[i] = ResultOf(i)
                              /\ \A k \in DOMAIN results[i].output :
                                   results[i].output[k] = tasks[i].code
    /\ mainpc = "done" => \A i \in Calls : results[i].set

C1_Witness ==
    /\ mainpc = "done"
    /\ N >= 2
    /\ first_done = N
    /\ \A i \in Calls : results[i].output = <<tasks[i].code>>

(* C2: with max_workers = K, at most K run_code calls, hence at most K     *)
(* provider invocations, are in flight in every state; the tasks beyond    *)
(* wait in the queue.                                                      *)
C2_AtMostKInFlight ==
    /\ Cardinality(InFlight) <= max_workers
    /\ Cardinality({i \in Calls : client[i] = "running"}) <= max_workers

C2_Witness ==
    /\ N > max_workers
    /\ Cardinality({i \in Calls : client[i] = "running"}) = max_workers
    /\ queue # <<>>

(* C3: when the deadline of a run elapses the call returns exit code -1    *)
(* and neither the client process nor the container is running once the    *)
(* call has returned.                                                      *)
C3_NoSandboxAfterTimeout ==
    \A i \in Calls :
        TimedOut(i) =>
            /\ pc[i] = "returned"
            /\ ret[i].kind = "return"
            /\ ret[i].exit_code = -1
            /\ client[i] # "running"
            /\ container[i] # "running"

(* C4: every call of run_code and run_code_from_dir ends with one outcome  *)
(* triple and never raises, also when the provider cannot be launched.     *)
C4_NeverRaises ==
    \A i \in Calls :
        /\ pc[i] # "raised"
        /\ Ended(i) => ret[i].kind = "return"

(* C5: for a language that is, once normalised as the code normalises it   *)
(* (python when empty, lower case), outside {python, node}, the call       *)
(* returns the unsupported-language triple with exit code -2, and nothing  *)
(* else happens first: no staging directory, no entry check result, no     *)
(* command, no provider invocation.                                        *)
C5_UnsupportedLanguageFirst ==
    \A i \in Calls :
        Lang(i) \notin {"python", "node"} =>
            /\ pc[i] \in {"start", "returned"}
            /\ tmpdir[i] = NoDir
            /\ fs = << >>
            /\ cmd[i] = NoCmd
            /\ invocations[i] = 0
            /\ client[i] = "none"
            /\ pc[i] = "returned" =>
                 ret[i] = Returned(Outcome(<<>>, UnsupportedMsg(Lang(i)), -2))

C5_Witness ==
    /\ op = "run_code_from_dir"
    /\ tasks[1].lang = "ruby"
    /\ ~ tasks[1].entry_exists
    /\ pc[1] = "returned"
    /\ ret[1].exit_code = -2

(* C6: a directory run returns, for every provider result, the triple      *)
(* run_code returns for that provider result.                              *)
C6_DirClassifiesAsInline ==
    \A i \in Calls :
        (op = "run_code_from_dir" /\ Exited(i)) =>
            Triple(ret[i]) = ClassifyRunCode(cap_out[i], cap_err[i], status[i])

(* run_code took the branch of line 76 for call i                          *)
KillRuleApplies(i) ==
    /\ op = "run_code"
    /\ Exited(i)
    /\ \/ status[i] = 137
       \/ Contains(cap_err[i], "Killed")
       \/ Contains(cap_err[i], "OOM")

NoMemoryMarker(stderr) ==
    /\ ~ Contains(stderr, "Killed")
    /\ ~ Contains(stderr, "OOM")
    /\ ~ Contains(stderr, "MemoryError")

(* C8 as stated: a program that writes S to stdout and exits 0 gets exit   *)
(* code 0 and a stdout containing S, whatever it wrote to stderr.          *)
C8_SuccessWhateverStderr ==
    \A i \in Calls :
        (op = "run_code" /\ Exited(i) /\ status[i] = 0 /\ Contains(cap_out[i], "S")) =>
            /\ ret[i].exit_code = 0
            /\ Contains(ret[i].stdout, "S")

(* C8 amended: a program that exits 0 and whose stderr holds none of the   *)
(* markers Killed, OOM, MemoryError gets its stdout and stderr back        *)
(* verbatim with exit code 0.                                              *)
C8_SuccessWithoutMarkers ==
    \A i \in Calls :
        (op = "run_code" /\ Exited(i) /\ status[i] = 0 /\ NoMemoryMarker(cap_err[i])) =>
            ret[i] = Returned(Outcome(cap_out[i], cap_err[i], 0))

C8_Witness ==
    /\ op = "run_code"
    /\ Lang(1) = "node"
    /\ Exited(1)
    /\ status[1] = 0
    /\ cap_out[1] = <<"S">>
    /\ cap_err[1] = <<"Traceback">>
    /\ ret[1].stdout = <<"S">>

(* the classification a caller reads off the returned exit code            *)
ClassOf(exit_code) ==
    CASE exit_code = 0 -> "Success"
      [] exit_code = -1 -> "TimedOut"
      [] exit_code = -2 -> "UnsupportedLanguage"
      [] exit_code = -3 -> "EntryNotFound"
      [] exit_code = 137 -> "ResourceKilled"
      [] OTHER -> "RuntimeError"

(* C9: a process that was not killed (status not 137, no kill marker) and  *)
(* whose stderr holds the language-level MemoryError signal gets a         *)
(* RuntimeError outcome with its raw stderr and its own exit code, never   *)
(* Success.                                                                *)
C9_MemoryErrorIsRuntimeError ==
    \A i \in Calls :
        (/\ op = "run_code"
         /\ Exited(i)
         /\ status[i] # 137
         /\ ~ Contains(cap_err[i], "Killed")
         /\ ~ Contains(cap_err[i], "OOM")
         /\ Contains(cap_err[i], "MemoryError")) =>
            /\ ret[i].stderr = cap_err[i]
            /\ ret[i].exit_code = status[i]
            /\ ClassOf(ret[i].exit_code) = "RuntimeError"

(* C10 as stated: on a timeout the returned stdout and stderr are what the *)
(* process had written up to the deadline.                                 *)
C10_TimeoutKeepsCaptured ==
    \A i \in Calls :
        TimedOut(i) =>
            /\ ret[i].stdout = cap_out[i]
            /\ ret[i].stderr = cap_err[i]

(* C10 amended: on a timeout the returned stdout is empty, stderr is the   *)
(* fixed timeout message and the exit code is -1, whatever the process had *)
(* written up to the deadline.                                             *)
C10_TimeoutDropsCaptured ==
    \A i \in Calls :
        TimedOut(i) => ret[i] = Returned(Outcome(<<>>, TimeoutMsg, -1))

C10_Witness ==
    /\ TimedOut(1)
    /\ cap_out[1] # <<>>
    /\ cap_err[1] # <<>>
    /\ pc[1] = "returned"

(* C11: in run_multiple a fault of one task's run changes no sibling and   *)
(* does not make the batch raise: the faulted task gets the executor-error *)
(* triple in its own slot, every collected sibling holds the triple its    *)
(* own run returned, and at return every sibling slot is filled.           *)
C11_FaultIsolated ==
    /\ mainpc # "raised"
    /\ \A i \in Calls :
         ret[i].kind = "raise" =>
            /\ i \in collected =>
                 results[i] = ResultDict(<<>>, ExecutorErrorMsg(ret[i].exc), -3)
            /\ \A j \in Calls \ {i} :
                 /\ (j \in collected /\ ret[j].kind = "return") =>
                      results[j] = ResultDict(ret[j].stdout, ret[j].stderr, ret[j].exit_code)
                 /\ mainpc = "done" => results[j].set

C11_Witness ==
    /\ mainpc = "done"
    /\ N >= 2
    /\ ret[1].kind = "raise"
    /\ results[1].exit_code = -3
    /\ ret[2].kind = "return"
    /\ results[2].output = <<tasks[2].code>>
    /\ results[2].exit_code = 0

(* the entry names a file that exists inside the root directory            *)
ExistsUnderRoot(t) == JoinStaysUnderRoot(t.entry) /\ t.entry_exists

(* C12: a directory run with a supported language whose entry does not     *)
(* exist under the root directory returns the entry-not-found triple (exit *)
(* code -3) with no staging and no provider invocation.                    *)
C12_EntryNotFoundFirst ==
    \A i \in Calls :
        (/\ op = "run_code_from_dir"
         /\ Lang(i) \in {"python", "node"}
         /\ ~ ExistsUnderRoot(tasks[i])) =>
            /\ invocations[i] = 0
            /\ tmpdir[i] = NoDir
            /\ client[i] = "none"
            /\ pc[i] = "returned" =>
                 ret[i] = Returned(Outcome(<<>>, EntryNotFoundMsg(tasks[i].entry), -3))

(* C13: the staging directory run_code creates is removed on every exit    *)
(* path: once a call has ended, by return or by exception, its staging     *)
(* directory no longer exists, and only calls between staging and their    *)
(* end have a directory at all.                                            *)
C13_StagingRemoved ==
    /\ \A i \in Calls : Ended(i) => tmpdir[i] \notin DOMAIN fs
    /\ \A d \in DOMAIN fs : \E i \in Calls : tmpdir[i] = d /\ pc[i] \in {"launch", "running"}

C13_Witness ==
    /\ op = "run_code"
    /\ pc[1] = "raised"
    /\ invocations[1] = 1
    /\ tmpdir[1] # NoDir
    /\ fs = << >>

(* how the provider resolved a call                                        *)
Observed(i) == <<invocations[i], client[i], status[i], cap_err[i]>>

(* C14: staging is never shared: two inline runs, concurrent or one after  *)
(* the other, never use the same staging directory; a run's directory      *)
(* holds its own snippet only and is the directory mounted into its        *)
(* sandbox; and two runs of the same language that the provider resolved   *)
(* the same way end with the same exit code and stderr.                    *)
C14_StagingNotShared ==
    /\ \A i, j \in Calls :
         (i # j /\ tmpdir[i] # NoDir /\ tmpdir[j] # NoDir) => tmpdir[i] # tmpdir[j]
    /\ \A i \in Calls :
         /\ tmpdir[i] \in DOMAIN fs => fs[tmpdir[i]] = {<<Filename(Lang(i)), tasks[i].code>>}
         /\ cmd[i] # NoCmd => cmd[i].src = tmpdir[i]
    /\ \A i, j \in Calls :
         (Ended(i) /\ Ended(j) /\ Lang(i) = Lang(j) /\ Observed(i) = Observed(j)) =>
            /\ ret[i].kind = ret[j].kind
            /\ ret[i].exit_code = ret[j].exit_code
            /\ ret[i].stderr = ret[j].stderr

C14_Witness ==
    /\ N >= 2
    /\ pc[1] = "running"
    /\ pc[2] = "running"
    /\ tmpdir[1] \in DOMAIN fs
    /\ tmpdir[2] \in DOMAIN fs
    /\ tmpdir[1] # tmpdir[2]

(* the value that follows the flag in a command line ("" when absent)      *)
FlagValueAfter(flags, name) ==
    IF \E k \in 1..(Len(flags) - 1) : flags[k] = name
    THEN flags[(CHOOSE k \in 1..(Len(flags) - 1) : flags[k] = name) + 1]
    ELSE ""

FixedPolicy(i) ==
    /\ FlagValueAfter(cmd[i].flags, "--network") = "none"
    /\ FlagValueAfter(cmd[i].flags, "--memory") = "128m"
    /\ FlagValueAfter(cmd[i].flags, "--memory") = MEMORY_LIMIT
    /\ \E k \in DOMAIN cmd[i].flags : cmd[i].flags[k] = "--read-only"
    /\ cmd[i].mode = "ro"
    /\ cmd[i].dst = "/app"
    /\ cmd[i].image \in {"python:3.11-slim", "node:20-slim"}
    /\ deadline[i] = 10

(* C15: every provider invocation of every public operation, whatever the  *)
(* code, language and entry name, is made with the network disabled, the   *)
(* source mounted read-only, a read-only root filesystem, the memory       *)
(* ceiling 128m and the deadline of 10 seconds; and a command, once built, *)
(* is never changed.                                                       *)
C15_FixedPolicy ==
    /\ [](\A i \in Calls : invocations[i] > 0 => FixedPolicy(i))
    /\ [][\A i \in Calls : cmd[i] # NoCmd => cmd'[i] = cmd[i]]_vars

C15_Witness ==
    /\ op = "run_code_from_dir"
    /\ Lang(1) = "node"
    /\ tasks[1].entry = "../other.py"
    /\ invocations[1] = 1
    /\ client[1] = "running"
    /\ cmd[1].run_cmd = <<"node", "../other.py">>

(* the handler got an outcome from the executor and has answered           *)
AnsweredRun == apppc = "responded" /\ ~ Rejected /\ ~ ExecRaised

(* C16: a failure of the history store never alters or fails the response  *)
(* of a run: once /run, /run-batch or /run-zip has answered a run the      *)
(* executor completed, the response is 200 with exactly the executor's     *)
(* outcomes whether each save succeeded or failed, every task's record was *)
(* attempted, and every save that did not fail is in the database.         *)
C16_HistoryFailureHarmless ==
    AnsweredRun =>
        /\ response = [code |-> 200, outcomes |-> ExecOutcomes]
        /\ \A k \in Calls : saved[k] \in {"ok", "failed"}
        /\ Len(HISTORY) - Count(HISTORY, OtherItem) = N
        /\ Len(db) - Count(db, OtherItem) = Cardinality({k \in Calls : saved[k] = "ok"})

C16_Witness ==
    /\ route = "/run-batch"
    /\ AnsweredRun
    /\ N = 2
    /\ saved[1] = "failed"
    /\ saved[2] = "ok"
    /\ response.code = 200

(* the request carries a snippet longer than MAX_CODE_CHARS                *)
OverLong ==
    /\ route \in {"/run", "/run-batch"}
    /\ \E k \in DOMAIN req : req[k].len > MAX_CODE_CHARS

(* C17: no snippet longer than MAX_CODE_CHARS reaches the executor: /run   *)
(* and /run-batch answer 400 before any run, and a batch with one          *)
(* over-long task stages nothing and launches no sandbox for any task.     *)
C17_OverLongNeverRuns ==
    OverLong =>
        /\ apppc \in {"validate", "responded"}
        /\ apppc = "responded" => response.code = 400
        /\ \A i \in Calls :
             /\ pc[i] \in {"start", "unsubmitted"}
             /\ invocations[i] = 0
             /\ cmd[i] = NoCmd
             /\ tmpdir[i] = NoDir

C17_Witness ==
    /\ route = "/run-batch"
    /\ Len(req) = 2
    /\ req[1].len = MAX_CODE_CHARS
    /\ req[2].len = MAX_CODE_CHARS + 1
    /\ apppc = "responded"
    /\ response.code = 400

(* the language task k of a /run-batch request declares                    *)
Declared(k) == NormalizeLang(GetLanguage(req[k]))

(* C18: each task of a /run-batch request runs under the language its      *)
(* "language" field declares (python when absent): a launched task uses    *)
(* the image, interpreter and entry file of the declared language, and a   *)
(* task declaring an unsupported language launches nothing and gets the    *)
(* unsupported-language outcome at its position.                           *)
C18_BatchRunsDeclaredLanguage ==
    route = "/run-batch" =>
        \A k \in Calls :
            /\ cmd[k] # NoCmd =>
                 /\ IsSupported(Declared(k))
                 /\ cmd[k].image = (IF Declared(k) = "python" THEN PYTHON_IMAGE ELSE NODE_IMAGE)
                 /\ cmd[k].run_cmd = <<Declared(k), Filename(Declared(k))>>
            /\ (~ IsSupported(Declared(k)) /\ apppc = "responded" /\ response.code = 200) =>
                 response.outcomes[k] = Outcome(<<>>, UnsupportedMsg(Declared(k)), -2)

SentinelClasses ==
    {"TimedOut", "UnsupportedLanguage", "EntryNotFound", "InternalFailure", "ResourceKilled"}

(* the status code each branch of the executor writes for its class:       *)
(* executor.py lines 86 and 117, 48 and 97, 102, 137, 78                   *)
SentinelCode(class) ==
    CASE class = "TimedOut" -> TimeoutOutcome(<<>>, <<>>).exit_code
      [] class = "UnsupportedLanguage" -> -2
      [] class = "EntryNotFound" -> -3
      [] class = "InternalFailure" -> -3
      [] class = "ResourceKilled" -> ClassifyRunCode(<<>>, <<>>, 137).exit_code

(* the sentinel classes a reader of status code c has to choose from       *)
ClassesWithCode(c) == {class \in SentinelClasses : SentinelCode(class) = c}

(* the classification of the branch call i ended in                        *)
BranchClass(i) ==
    CASE ret[i].kind = "raise" -> "InternalFailure"
      [] ret[i].kind # "raise" /\ TimedOut(i) -> "TimedOut"
      [] ret[i].kind # "raise" /\ Exited(i) ->
            IF IsDirRun
            THEN IF status[i] # 0 /\ Contains(cap_err[i], "Killed") THEN "ResourceKilled"
                 ELSE IF status[i] = 0 THEN "Success" ELSE "RuntimeError"
            ELSE IF IsContainerKill(status[i], cap_err[i]) THEN "ResourceKilled"
                 ELSE IF status[i] = 0 THEN "Success" ELSE "RuntimeError"
      [] OTHER -> IF ~ IsSupported(Lang(i)) THEN "UnsupportedLanguage" ELSE "EntryNotFound"

(* call i has handed its caller an outcome                                 *)
Produced(i) ==
    IF op = "run_multiple" THEN results[i].set ELSE pc[i] = "returned"

ProducedCode(i) ==
    IF op = "run_multiple" THEN results[i].exit_code ELSE ret[i].exit_code

(* C19: the status code of an outcome identifies its classification across *)
(* run_code, run_code_from_dir and run_multiple: a code that is the        *)
(* sentinel of some class is the sentinel of that one class only and is    *)
(* carried only by outcomes of that class, never by a Success or           *)
(* RuntimeError outcome as a passed-through exit status.                   *)
C19_StatusCodeIdentifiesClass ==
    \A i \in Calls :
        Produced(i) => ClassesWithCode(ProducedCode(i)) \subseteq {BranchClass(i)}

(* nothing of the batch is in flight                                       *)
PoolDrained ==
    /\ queue = <<>>
    /\ InFlight = {}
    /\ \A i \in Calls : Ended(i) /\ client[i] # "running" /\ results[i].set

(* C20: when every provider invocation resolves by process exit or by its  *)
(* deadline, run_multiple eventually returns for every batch size and      *)
(* every worker bound K >= 1: every queued task is eventually admitted to  *)
(* a worker, every admitted run eventually ends, and at return no run of   *)
(* the batch is queued or in flight: whenever a task waits in the queue or *)
(* runs on a worker, later every task of the batch has left the queue and  *)
(* ended.                                                                  *)
C20_BatchTerminates ==
    /\ <>(mainpc = "done")
    /\ (\E i \in Calls : pc[i] \in ActivePcs \cup {"queued"}) ~> (\A i \in Calls : Ended(i))
    /\ [](mainpc = "done" => PoolDrained)

C20_Witness ==
    /\ op = "run_multiple"
    /\ mainpc = "done"
    /\ PoolDrained
    /\ N > max_workers
    /\ \E i \in Calls : TimedOut(i)
    /\ \E i \in Calls : Exited(i)

====
